---- MODULE Spec2Model ----
(***************************************************************************)
(* hevy-sync: one synchronisation pass of sync_app.main, with the          *)
(* watermark file (LAST_SYNC_DATE_FILE), the temp_fit_files directory and  *)
(* the fetch / encode / upload collaborators.                              *)
(*                                                                         *)
(* Instants are whole seconds (integers).  A pass is one call of main();   *)
(* it is cut at every call of a collaborator, so that the outcomes of the   *)
(* collaborators (return, return False, raise) are separate steps.         *)
(***************************************************************************)
EXTENDS Integers, Sequences, FiniteSets, TLC

\* ------------------------------------------------------------------ bounds
\* The wall clock runs over 0..MaxNow (seconds).
MaxNow == 2
\* A fetch returns at most MaxBatch workouts.
MaxBatch == 2
\* Stored watermarks stay at or below MaxMark: a pass whose watermark has
\* reached it fetches nothing more.
MaxMark == 3

\* While two invocations of main() overlap, a fetch returns at most
\* OverlapBatch workouts.
OverlapBatch == 1
\* The encoder is applied to workouts of at most MaxExercises exercises of
\* at most MaxSets sets each.
MaxExercises == 2
MaxSets == 2

\* ------------------------------------------------------- program constants
\* timedelta(days=30), in seconds (sync_app.py:25).
DEFAULT_WINDOW == 2592000
\* timedelta(hours=1), in seconds (sync_app.py:48).
FETCH_BUFFER == 3600
\* timedelta(seconds=1) (sync_app.py:99).
PAD == 1
\* datetime(1989, 12, 31, 0, 0, 0, tzinfo=utc), in seconds since
\* 1970-01-01T00:00:00Z (fit_generator.py:41).
GARMIN_EPOCH == 631065600
\* The default of s.get('duration_seconds', 60) (fit_generator.py:123).
DEFAULT_SET_DURATION == 60

\* --------------------------------------------------------------- workouts
\* The workout dictionaries the fetch collaborator can return.
\*   sk    : start_time is "ok" (an ISO string), "bad" (a string that
\*           fromisoformat rejects) or "none" (missing or empty)
\*   start : the wall-clock fields of start_time, in seconds
\*   ek/end: the same for end_time
\*   neg   : some set carries a negative reps or weight_lbs
Workouts ==
  << [sk |-> "ok",   start |-> 2, ek |-> "bad", end |-> 0, neg |-> FALSE],
     [sk |-> "ok",   start |-> 1, ek |-> "ok",  end |-> 2, neg |-> FALSE],
     [sk |-> "ok",   start |-> 2, ek |-> "ok",  end |-> 3, neg |-> TRUE],
     [sk |-> "none", start |-> 0, ek |-> "ok",  end |-> 1, neg |-> FALSE],
     [sk |-> "bad",  start |-> 0, ek |-> "ok",  end |-> 1, neg |-> FALSE] >>

Ids == 1..Len(Workouts)

\* Sequences of distinct workouts of length 0..MaxBatch.
Batches ==
  { b \in UNION { [1..n -> Ids] : n \in 0..MaxBatch } :
      \A i, j \in DOMAIN b : i # j => b[i] # b[j] }

\* ------------------------------------------------------------------ state
VARIABLES
  now,                 \* the wall clock
  file,                \* LAST_SYNC_DATE_FILE: [kind, val]
  disk,                \* the paths present in temp_fit_files
  pc,                  \* where main() stands
  last_sync_date,      \* main's local
  current_time,        \* main's local
  workouts_to_sync,    \* main's local: the fetched batch
  idx,                 \* position of the for loop in workouts_to_sync
  latest_workout_time, \* main's local
  fit_file_path,       \* main's local: <<>> while unbound, else <<path>>
  passResult,          \* how the last main() ended
  acceptedNow,         \* workouts that passed the filter in this pass
  encTried,            \* workouts handed to the encoder in this pass
  encFailedNow,        \* workouts whose encode raised in this pass
  handedNow,           \* workouts handed to upload in this pass
  upFailedNow,         \* workouts whose upload failed in this pass
  hist,                \* per workout, what the earlier passes did with it:
                       \* "new" (never handed to upload), "failed" (handed,
                       \* never uploaded) or "sent" (uploaded)
  hevy_workout_data,   \* generate_strength_activity_fit's argument
  fit_file,            \* what the call made of it: [st, msgs]
  other,               \* a second invocation of main(): its position, its
                       \* locals and what it handed to upload
  reads,               \* calls of get_last_sync_date in this pass
  writes               \* calls of set_last_sync_date in this pass

locals == <<last_sync_date, current_time, workouts_to_sync, idx,
            latest_workout_time, fit_file_path>>
passLog == <<acceptedNow, encTried, encFailedNow, handedNow, upFailedNow>>
history == <<hist>>
encoder == <<hevy_workout_data, fit_file>>
overlap == <<other>>
\* The state of the first invocation of main().
first == <<pc, locals, passResult, passLog, history>>
access == <<reads, writes>>
vars == <<now, file, disk, pc, locals, passResult, passLog, history, encoder,
          overlap, access>>

\* The content of the watermark file.  A timestamp string is held as its
\* wall-clock fields (val) and the UTC offset it carries (off), both in
\* seconds: it names the instant val - off.
Missing == [kind |-> "missing", val |-> 0, off |-> 0]
Empty   == [kind |-> "empty",   val |-> 0, off |-> 0]
Corrupt == [kind |-> "corrupt", val |-> 0, off |-> 0]
\* The isoformat of a datetime whose tzinfo is timezone.utc: "...+00:00".
Stored(t) == [kind |-> "ok", val |-> t, off |-> 0]
\* An ISO-8601 timestamp string written by another hand.
Written(t, o) == [kind |-> "ok", val |-> t, off |-> o]
\* The instant a timestamp string names.
InstantOf(f) == f.val - f.off

\* ------------------------------------------------------------ SyncCursor
\* get_last_sync_date: fromisoformat(...).replace(tzinfo=timezone.utc)
\* keeps the wall-clock fields of the string and stamps them as UTC;
\* a missing, empty or unparsable file gives now - 30 days.
get_last_sync_date(f, t) ==
  IF f.kind = "ok" THEN f.val ELSE t - DEFAULT_WINDOW

\* Variant of set_last_sync_date: the instant is written in local time, one
\* hour east of UTC, with its offset.
set_last_sync_date_local(t) == Written(t + 3600, 3600)

\* set_last_sync_date: the file holds the instant's isoformat.
set_last_sync_date(t) == Stored(t)

\* Variant of AlreadySynced: a start equal to the watermark is not skipped.
AlreadySyncedLax(st, w) == st < w

\* Line 68: the workout is skipped as already synced.
AlreadySynced(st, w) == st <= w

\* Lines 73-74: the running latest accepted start.
Later(st, latest) == IF st > latest THEN st ELSE latest

\* Variant of NextSyncDate: the one-second pad is left out.
NextSyncDateNoPad(latest) == latest

\* Line 99: the instant stored at the end of a pass.
NextSyncDate(latest) == latest + PAD

\* --------------------------------------------------------- ActivityEncoder
\* The file name is made of the wall-clock fields of the start (line 140).
PathOf(w) == w.start

\* Variant of Parses: a workout without a start_time is encoded from its
\* end_time alone.
ParsesEndOnly(w) == w.sk # "bad" /\ w.ek = "ok"

\* Lines 37-38: both timestamps parse.
Parses(w) == w.sk = "ok" /\ w.ek = "ok"

\* The dictionaries generate_strength_activity_fit is applied to.  Instants
\* are seconds since 1970-01-01T00:00:00Z; 1704103200 is
\* 2024-01-01T10:00:00Z.  start_time and end_time are the instants the two
\* strings name, utcoffset is the UTC offset both strings carry.  A set's
\* duration_seconds key is "absent", holds None ("null") or holds an integer
\* ("int", the value in duration_seconds).
StartTimes == {1704103200}
UtcOffsets == {0, 7200}
Lengths == {0, 95, 3600}
SetValues ==
  { [dk |-> "absent", duration_seconds |-> 0],
    [dk |-> "null",   duration_seconds |-> 0],
    [dk |-> "int",    duration_seconds |-> 90] }
SeqsUpTo(S, n) == UNION { [1..k -> S] : k \in 0..n }
ExerciseValues == { [sets |-> ss] : ss \in SeqsUpTo(SetValues, MaxSets) }
\* The dictionaries of at most n exercises.
WorkoutData(n) ==
  { [start_time |-> st, end_time |-> st + len, utcoffset |-> o,
     exercises |-> exs] :
      st \in StartTimes, len \in Lengths, o \in UtcOffsets,
      exs \in SeqsUpTo(ExerciseValues, n) }

\* Line 67 of sync_app.py: fromisoformat(start_time).replace(tzinfo=utc)
\* keeps the wall-clock fields of the string and stamps them as UTC.
workout_start_time(d) == d.start_time + d.utcoffset

\* Lines 49-50: int((dt - garmin_epoch).total_seconds()), on whole seconds.
FitTimestamp(t) == t - GARMIN_EPOCH

\* Line 52: (end_datetime - start_datetime).total_seconds().
TotalElapsed(d) == d.end_time - d.start_time

\* Variant of TotalCalories: the minutes are truncated before the product.
TotalCaloriesWholeMinutes(elapsed) == (elapsed \div 60) * 6

\* Line 55: int((elapsed / 60) * 6).  On whole non-negative seconds the
\* float product elapsed / 60 * 6 truncates to the integer part of
\* elapsed * 6 / 60.
TotalCalories(elapsed) == (elapsed * 6) \div 60

\* Lines 60-66.
FileIdMessage(d) ==
  [kind |-> "file_id", type |-> "activity",
   time_created |-> FitTimestamp(d.start_time)]

\* Lines 69-86.
SessionMessage(d) ==
  [kind |-> "session",
   start_time |-> FitTimestamp(d.start_time),
   total_elapsed_time |-> TotalElapsed(d),
   total_timer_time |-> TotalElapsed(d),
   sport |-> "strength_training",
   total_calories |-> TotalCalories(TotalElapsed(d)),
   num_laps |-> 1,
   timestamp |-> FitTimestamp(d.end_time),
   event |-> "session", event_type |-> "stop"]

\* Lines 89-99.
EventMessage(ts, type) ==
  [kind |-> "event", timestamp |-> ts, event |-> "timer", event_type |-> type]

\* Lines 113-119, 130-134.
RecordMessage(ts) == [kind |-> "record", timestamp |-> ts]

\* s.get('duration_seconds', 60): the default stands for an absent key only.
SetDuration(s) ==
  IF s.dk = "absent" THEN DEFAULT_SET_DURATION ELSE s.duration_seconds

\* Line 123: the sum over the sets of one exercise.
RECURSIVE SumDurations(_)
SumDurations(ss) ==
  IF ss = <<>> THEN 0 ELSE SetDuration(Head(ss)) + SumDurations(Tail(ss))

\* Line 123 raises TypeError when a duration_seconds holds None.
SumRaises(ex) == \E i \in DOMAIN ex.sets : ex.sets[i].dk = "null"

\* current_timestamp_offset before the k-th exercise (lines 106, 124).
RECURSIVE OffsetBefore(_, _)
OffsetBefore(exs, k) ==
  IF k <= 1 THEN 0
  ELSE OffsetBefore(exs, k - 1) + SumDurations(exs[k - 1].sets)

\* Lines 107-119: one Record at the start of each exercise.
ExerciseRecords(d) ==
  [k \in DOMAIN d.exercises |->
     RecordMessage(FitTimestamp(d.start_time + OffsetBefore(d.exercises, k)))]

\* Variant of FinalRecord: the final Record is added in every case.
FinalRecordAlways(d) == <<RecordMessage(FitTimestamp(d.end_time))>>

\* Variant of FinalRecord: the test for an empty exercise list is left out.
FinalRecordIfShort(d) ==
  IF FitTimestamp(d.end_time)
       > FitTimestamp(d.start_time
                        + OffsetBefore(d.exercises, Len(d.exercises) + 1))
  THEN <<RecordMessage(FitTimestamp(d.end_time))>>
  ELSE <<>>

\* Lines 129-134: the final Record.
FinalRecord(d) ==
  IF \/ d.exercises = <<>>
     \/ FitTimestamp(d.end_time)
          > FitTimestamp(d.start_time
                           + OffsetBefore(d.exercises, Len(d.exercises) + 1))
  THEN <<RecordMessage(FitTimestamp(d.end_time))>>
  ELSE <<>>

\* The messages in the order of the builder.add calls (lines 66, 86, 93,
\* 99, 119, 134).
BuilderMessages(d) ==
  << FileIdMessage(d),
     SessionMessage(d),
     EventMessage(FitTimestamp(d.start_time), "start"),
     EventMessage(FitTimestamp(d.end_time), "stop") >>
    \o ExerciseRecords(d) \o FinalRecord(d)

\* The call raises.
GenerateRaises(d) == \E k \in DOMAIN d.exercises : SumRaises(d.exercises[k])

\* The argument while the encoder is not under study: a workout without
\* exercises.
NoWorkout ==
  [start_time |-> 1704103200, end_time |-> 1704103200, utcoffset |-> 0,
   exercises |-> <<>>]

\* The encoder before a call.
NotCalled == [st |-> "none", msgs |-> <<>>]

\* The second invocation before it is started.
NotStarted ==
  [pc |-> "Idle", result |-> "none", last_sync_date |-> 0, current_time |-> 0,
   workouts_to_sync |-> <<>>, idx |-> 1, latest_workout_time |-> 0,
   fit_file_path |-> <<>>, handed |-> {}, upFailed |-> {}]

\* ------------------------------------------------------------------- Init
Init ==
  /\ now = 0
  /\ file \in {Missing, Empty, Corrupt, Stored(0)}
  /\ disk = {}
  /\ pc = "Idle"
  /\ last_sync_date = 0
  /\ current_time = 0
  /\ workouts_to_sync = <<>>
  /\ idx = 1
  /\ latest_workout_time = 0
  /\ fit_file_path = <<>>
  /\ passResult = "none"
  /\ acceptedNow = {} /\ encTried = {} /\ encFailedNow = {}
  /\ handedNow = {} /\ upFailedNow = {}
  /\ hist = [id \in Ids |-> "new"]
  /\ hevy_workout_data = NoWorkout
  /\ fit_file = NotCalled
  /\ other = NotStarted
  /\ reads = 0 /\ writes = 0

\* ---------------------------------------------------------------- actions
\* The clock advances.  main() reads the clock at lines 25 and 42 only, so
\* the clock is moved between two passes.
Tick ==
  /\ pc = "Idle"
  /\ now < MaxNow
  /\ now' = now + 1
  /\ UNCHANGED <<file, disk, pc, locals, passResult, passLog, history,
                 encoder, overlap, access>>

\* main() is called: lines 33-42.
StartPass ==
  /\ pc = "Idle"
  /\ pc' = "Fetching"
  /\ last_sync_date' = get_last_sync_date(file, now)
  /\ current_time' = now
  /\ workouts_to_sync' = <<>>
  /\ idx' = 1
  /\ latest_workout_time' = get_last_sync_date(file, now)
  /\ fit_file_path' = <<>>
  /\ passResult' = IF passResult = "crashed" THEN "rerun" ELSE "running"
  /\ acceptedNow' = {} /\ encTried' = {} /\ encFailedNow' = {}
  /\ handedNow' = {} /\ upFailedNow' = {}
  /\ hist' = [id \in Ids |->
                IF hist[id] = "sent" \/ id \in handedNow \ upFailedNow
                THEN "sent"
                ELSE IF id \in upFailedNow THEN "failed" ELSE hist[id]]
  /\ reads' = 1 /\ writes' = 0
  /\ UNCHANGED <<now, file, disk, encoder, overlap>>

\* Variant of FetchFail: the failure is handled as an empty list is, and
\* the clock reading is stored.
FetchFailStores ==
  /\ pc = "Fetching"
  /\ file' = set_last_sync_date(current_time)
  /\ pc' = "Idle"
  /\ passResult' = "fetchfail"
  /\ writes' = writes + 1
  /\ UNCHANGED <<now, disk, locals, passLog, history,
                 encoder, overlap, reads>>

\* get_workouts raises: lines 50-52.
FetchFail ==
  /\ pc = "Fetching"
  /\ pc' = "Idle"
  /\ passResult' = "fetchfail"
  /\ UNCHANGED <<now, file, disk, locals, passLog, history,
                 encoder, overlap, access>>

\* get_workouts returns an empty list: lines 54-57.
FetchEmpty ==
  /\ pc = "Fetching"
  /\ file' = set_last_sync_date(current_time)
  /\ pc' = "Idle"
  /\ passResult' = "empty"
  /\ writes' = writes + 1
  /\ UNCHANGED <<now, disk, locals, passLog, history,
                 encoder, overlap, reads>>

\* The watermarks for which a non-empty fetch is modelled: a stored one
\* below MaxMark, or the 30-day default.
InWindow(w, t) == w \in 0..(MaxMark - 1) \/ w = t - DEFAULT_WINDOW

\* get_workouts returns workouts: lines 48-49, 60-61.
FetchOk ==
  /\ pc = "Fetching"
  /\ InWindow(last_sync_date, current_time)
  /\ \E b \in Batches :
       /\ Len(b) > 0
       /\ \A i \in DOMAIN b :
            Workouts[b[i]].sk = "ok" =>
              Workouts[b[i]].start <= current_time + FETCH_BUFFER
       /\ workouts_to_sync' = b
  /\ pc' = "Filtering"
  /\ UNCHANGED <<now, file, disk, last_sync_date, current_time, idx,
                 latest_workout_time, fit_file_path, passResult, passLog,
                 history,
                 encoder, overlap, access>>

\* The program counter after the loop body of workout idx ended.
AfterWorkout == IF idx + 1 > Len(workouts_to_sync) THEN "Advancing" ELSE "Filtering"

\* Lines 64-77 for workout idx.
Filter ==
  /\ pc = "Filtering"
  /\ LET id == workouts_to_sync[idx]
         w  == Workouts[id]
     IN  \/ \* start_time missing or empty: the filter is bypassed
            /\ w.sk = "none"
            /\ pc' = "Encoding"
            /\ UNCHANGED <<idx, latest_workout_time, acceptedNow>>
         \/ \* ValueError: continue
            /\ w.sk = "bad"
            /\ pc' = AfterWorkout
            /\ idx' = idx + 1
            /\ UNCHANGED <<latest_workout_time, acceptedNow>>
         \/ \* already synced: continue
            /\ w.sk = "ok"
            /\ AlreadySynced(w.start, last_sync_date)
            /\ pc' = AfterWorkout
            /\ idx' = idx + 1
            /\ UNCHANGED <<latest_workout_time, acceptedNow>>
         \/ \* accepted
            /\ w.sk = "ok"
            /\ ~AlreadySynced(w.start, last_sync_date)
            /\ latest_workout_time' = Later(w.start, latest_workout_time)
            /\ acceptedNow' = acceptedNow \cup {id}
            /\ pc' = "Encoding"
            /\ UNCHANGED idx
  /\ UNCHANGED <<now, file, disk, last_sync_date, current_time,
                 workouts_to_sync, fit_file_path, passResult, encTried,
                 encFailedNow, handedNow, upFailedNow, history,
                 encoder, overlap, access>>

\* The workout in the loop body.
Cur == Workouts[workouts_to_sync[idx]]
CurId == workouts_to_sync[idx]

\* generate_strength_activity_fit returns the path of the written file
\* (fit_generator.py:32-145).  Nothing in it reads reps or weight_lbs, and
\* nothing compares end with start.
EncodeOk ==
  /\ pc = "Encoding"
  /\ Parses(Cur)
  /\ disk' = disk \cup {PathOf(Cur)}
  /\ fit_file_path' = <<PathOf(Cur)>>
  /\ encTried' = encTried \cup {CurId}
  /\ pc' = "Uploading"
  /\ UNCHANGED <<now, file, last_sync_date, current_time, workouts_to_sync,
                 idx, latest_workout_time, passResult, acceptedNow,
                 encFailedNow, handedNow, upFailedNow, history,
                 encoder, overlap, access>>

\* Variant of EncodeRaise: the exception is swallowed around the encoder
\* call alone, and the upload of line 84 is attempted all the same.
EncodeRaiseThenUpload ==
  /\ pc = "Encoding"
  /\ ~Parses(Cur)
  /\ encTried' = encTried \cup {CurId}
  /\ encFailedNow' = encFailedNow \cup {CurId}
  /\ pc' = "Uploading"
  /\ UNCHANGED <<now, file, disk, locals, passResult, acceptedNow,
                 handedNow, upFailedNow, history,
                 encoder, overlap, access>>

\* generate_strength_activity_fit raises before a file is written: KeyError
\* or ValueError at lines 37-38.  fit_file_path keeps its earlier binding.
EncodeRaise ==
  /\ pc = "Encoding"
  /\ ~Parses(Cur)
  /\ encTried' = encTried \cup {CurId}
  /\ encFailedNow' = encFailedNow \cup {CurId}
  /\ pc' = "Cleanup"
  /\ UNCHANGED <<now, file, disk, locals, passResult, acceptedNow,
                 handedNow, upFailedNow, history,
                 encoder, overlap, access>>

\* fit_file.to_file raises after it created the file (line 142): the path
\* is never returned, so fit_file_path keeps its earlier binding.
EncodeWriteFault ==
  /\ pc = "Encoding"
  /\ Parses(Cur)
  /\ disk' = disk \cup {PathOf(Cur)}
  /\ encTried' = encTried \cup {CurId}
  /\ encFailedNow' = encFailedNow \cup {CurId}
  /\ pc' = "Cleanup"
  /\ UNCHANGED <<now, file, locals, passResult, acceptedNow, handedNow,
                 upFailedNow, history,
                 encoder, overlap, access>>

\* upload_activity_file finds the file (garmin_client.py:48-50) and returns
\* True (garmin_client.py:82-90).
UploadOk ==
  /\ pc = "Uploading"
  /\ fit_file_path[1] \in disk
  /\ handedNow' = handedNow \cup {CurId}
  /\ pc' = "Cleanup"
  /\ UNCHANGED <<now, file, disk, locals, passResult, acceptedNow, encTried,
                 encFailedNow, upFailedNow, history,
                 encoder, overlap, access>>

\* upload_activity_file returns False (garmin_client.py:91-93).
UploadFalse ==
  /\ pc = "Uploading"
  /\ fit_file_path[1] \in disk
  /\ handedNow' = handedNow \cup {CurId}
  /\ upFailedNow' = upFailedNow \cup {CurId}
  /\ pc' = "Cleanup"
  /\ UNCHANGED <<now, file, disk, locals, passResult, acceptedNow, encTried,
                 encFailedNow, history,
                 encoder, overlap, access>>

\* Variant of UploadRaise: the exception escapes main and ends the pass.
UploadRaiseUncaught ==
  /\ pc = "Uploading"
  /\ handedNow' = handedNow \cup {CurId}
  /\ upFailedNow' = upFailedNow \cup {CurId}
  /\ pc' = "Idle"
  /\ passResult' = "aborted"
  /\ UNCHANGED <<now, file, disk, locals, acceptedNow, encTried,
                 encFailedNow, history,
                 encoder, overlap, access>>

\* upload_activity_file raises (garmin_client.py:46-50, 95-109); main catches
\* it at line 89.
UploadRaise ==
  /\ pc = "Uploading"
  /\ handedNow' = handedNow \cup {CurId}
  /\ upFailedNow' = upFailedNow \cup {CurId}
  /\ pc' = "Cleanup"
  /\ UNCHANGED <<now, file, disk, locals, passResult, acceptedNow, encTried,
                 encFailedNow, history,
                 encoder, overlap, access>>

\* Variant of Cleanup: the watermark is stored after every workout.
CleanupStores ==
  /\ pc = "Cleanup"
  /\ disk' = IF fit_file_path # <<>> /\ fit_file_path[1] \in disk
             THEN disk \ {fit_file_path[1]}
             ELSE disk
  /\ idx' = idx + 1
  /\ pc' = AfterWorkout
  /\ file' = set_last_sync_date(NextSyncDate(latest_workout_time))
  /\ writes' = writes + 1
  /\ UNCHANGED <<now, last_sync_date, current_time, workouts_to_sync,
                 latest_workout_time, fit_file_path, passResult, passLog,
                 history, encoder, overlap, reads>>

\* The finally block, lines 91-95, and the step of the for loop.
Cleanup ==
  /\ pc = "Cleanup"
  /\ disk' = IF fit_file_path # <<>> /\ fit_file_path[1] \in disk
             THEN disk \ {fit_file_path[1]}
             ELSE disk
  /\ idx' = idx + 1
  /\ pc' = AfterWorkout
  /\ UNCHANGED <<now, file, last_sync_date, current_time, workouts_to_sync,
                 latest_workout_time, fit_file_path, passResult, passLog,
                 history,
                 encoder, overlap, access>>

\* Lines 99-102: the store, and the load of line 102 for the log.
Advance ==
  /\ pc = "Advancing"
  /\ file' = set_last_sync_date(NextSyncDate(latest_workout_time))
  /\ pc' = "Idle"
  /\ passResult' = "done"
  /\ writes' = writes + 1
  /\ reads' = reads + 1
  /\ UNCHANGED <<now, disk, locals, passLog, history,
                 encoder, overlap>>

Next ==
  \/ Tick
  \/ StartPass
  \/ FetchFail
  \/ FetchEmpty
  \/ FetchOk
  \/ Filter
  \/ EncodeOk
  \/ EncodeRaise
  \/ EncodeWriteFault
  \/ UploadOk
  \/ UploadFalse
  \/ UploadRaise
  \/ Cleanup
  \/ Advance

Spec == Init /\ [][Next]_vars

\* A workout the encoder's contract accepts (spec 4.1).
WellFormed(w) == Parses(w) /\ w.end >= w.start /\ ~w.neg

\* One thread runs a pass to its end and the scheduler calls main() again
\* (WF).  The collaborators are fair to every well-formed workout: a workout the service
\* can return again and again is returned again, an encoding or an upload
\* that is attempted again and again succeeds at some attempt, and the
\* service has nothing to return in some of the passes (SF).  The local
\* disk is reliable: to_file does not fail.
PassStep ==
  \/ StartPass \/ FetchFail \/ FetchEmpty \/ FetchOk \/ Filter
  \/ EncodeOk \/ EncodeRaise
  \/ UploadOk \/ UploadFalse \/ UploadRaise \/ Cleanup \/ Advance
FetchOkOf(id) ==
  FetchOk /\ \E i \in DOMAIN workouts_to_sync' : workouts_to_sync'[i] = id
EncodeOkOf(id) == EncodeOk /\ CurId = id
UploadOkOf(id) == UploadOk /\ CurId = id
FairSpec ==
  /\ Init /\ [][Tick \/ PassStep]_vars
  /\ WF_vars(PassStep)
  /\ SF_vars(FetchEmpty)
  /\ \A id \in { i \in Ids : WellFormed(Workouts[i]) } :
       /\ SF_vars(FetchOkOf(id))
       /\ SF_vars(EncodeOkOf(id))
       /\ SF_vars(UploadOkOf(id))

\* ------------------------------------------------------- process crashes
\* Line 29: open(LAST_SYNC_DATE_FILE, 'w') truncates the file.
OpenForWrite == Empty

\* Line 56 up to the open of line 29: the empty branch opens the file.
StoreOpenEmpty ==
  /\ pc = "Fetching"
  /\ file' = OpenForWrite
  /\ pc' = "StoringEmpty"
  /\ writes' = writes + 1
  /\ UNCHANGED <<now, disk, locals, passResult, passLog, history,
                 encoder, overlap, reads>>

\* Line 30 and the close of the with block, then line 57.
StoreWriteEmpty ==
  /\ pc = "StoringEmpty"
  /\ file' = set_last_sync_date(current_time)
  /\ pc' = "Idle"
  /\ passResult' = "empty"
  /\ UNCHANGED <<now, disk, locals, passLog, history,
                 encoder, overlap, access>>

\* Line 99 up to the open of line 29.
StoreOpen ==
  /\ pc = "Advancing"
  /\ file' = OpenForWrite
  /\ pc' = "Storing"
  /\ writes' = writes + 1
  /\ UNCHANGED <<now, disk, locals, passResult, passLog, history,
                 encoder, overlap, reads>>

\* Line 30 and the close of the with block, then lines 101-102.
StoreWrite ==
  /\ pc = "Storing"
  /\ file' = set_last_sync_date(NextSyncDate(latest_workout_time))
  /\ pc' = "Idle"
  /\ passResult' = "done"
  /\ reads' = reads + 1
  /\ UNCHANGED <<now, disk, locals, passLog, history,
                 encoder, overlap, writes>>

\* The process dies inside main().  The file and the directory stay as
\* they are; what the dead pass uploaded is not a delivery of a completed
\* pass, so it does not enter hist.
Crash ==
  /\ pc # "Idle"
  /\ pc' = "Idle"
  /\ passResult' = "crashed"
  /\ acceptedNow' = {} /\ encTried' = {} /\ encFailedNow' = {}
  /\ handedNow' = {} /\ upFailedNow' = {}
  /\ UNCHANGED <<now, file, disk, locals, history,
                 encoder, overlap, access>>

\* The pass with the store cut at the open of the file, and crashes.
CrashNext ==
  \/ Tick
  \/ StartPass
  \/ FetchFail
  \/ StoreOpenEmpty
  \/ StoreWriteEmpty
  \/ FetchOk
  \/ Filter
  \/ EncodeOk
  \/ EncodeRaise
  \/ EncodeWriteFault
  \/ UploadOk
  \/ UploadFalse
  \/ UploadRaise
  \/ Cleanup
  \/ StoreOpen
  \/ StoreWrite
  \/ Crash

CrashSpec == Init /\ [][CrashNext]_vars

\* ------------------------------------------------------ load on any record
\* The UTC offsets of the timestamp strings a record is drawn from.
Offsets == {-3600, 0, 3600}
\* The watermark records load is applied to.
Records ==
  {Missing, Empty, Corrupt}
    \cup { Written(t, o) : t \in 0..MaxMark, o \in Offsets }

LoadInit ==
  /\ now = 0
  /\ file \in Records
  /\ disk = {}
  /\ pc = "Idle"
  /\ last_sync_date = 0
  /\ current_time = 0
  /\ workouts_to_sync = <<>>
  /\ idx = 1
  /\ latest_workout_time = 0
  /\ fit_file_path = <<>>
  /\ passResult = "none"
  /\ acceptedNow = {} /\ encTried = {} /\ encFailedNow = {}
  /\ handedNow = {} /\ upFailedNow = {}
  /\ hist = [id \in Ids |-> "new"]
  /\ hevy_workout_data = NoWorkout
  /\ fit_file = NotCalled
  /\ other = NotStarted
  /\ reads = 0 /\ writes = 0

\* main() loads at line 41; the pass ends without a store.
LoadNext ==
  \/ Tick
  \/ StartPass
  \/ FetchFail

LoadSpec == LoadInit /\ [][LoadNext]_vars

\* ---------------------------------------------- the encoder on any workout
EncInit ==
  /\ now = 0
  /\ file = Missing
  /\ disk = {}
  /\ pc = "Idle"
  /\ last_sync_date = 0
  /\ current_time = 0
  /\ workouts_to_sync = <<>>
  /\ idx = 1
  /\ latest_workout_time = 0
  /\ fit_file_path = <<>>
  /\ passResult = "none"
  /\ acceptedNow = {} /\ encTried = {} /\ encFailedNow = {}
  /\ handedNow = {} /\ upFailedNow = {}
  /\ hist = [id \in Ids |-> "new"]
  /\ hevy_workout_data \in WorkoutData(MaxExercises)
  /\ fit_file = NotCalled
  /\ other = NotStarted
  /\ reads = 0 /\ writes = 0

\* generate_strength_activity_fit returns: lines 37-145.
Generate ==
  /\ fit_file.st = "none"
  /\ ~GenerateRaises(hevy_workout_data)
  /\ fit_file' = [st |-> "built", msgs |-> BuilderMessages(hevy_workout_data)]
  /\ UNCHANGED <<now, file, disk, pc, locals, passResult, passLog, history,
                 hevy_workout_data, overlap, access>>

\* generate_strength_activity_fit raises at line 123.
GenerateRaise ==
  /\ fit_file.st = "none"
  /\ GenerateRaises(hevy_workout_data)
  /\ fit_file' = [st |-> "raised", msgs |-> <<>>]
  /\ UNCHANGED <<now, file, disk, pc, locals, passResult, passLog, history,
                 hevy_workout_data, overlap, access>>

\* Lines 64-74 of sync_app.py on the same dictionary: the start passes the
\* filter and is folded into latest_workout_time.
FilterWorkout ==
  /\ latest_workout_time = last_sync_date
  /\ ~AlreadySynced(workout_start_time(hevy_workout_data), last_sync_date)
  /\ latest_workout_time' =
       Later(workout_start_time(hevy_workout_data), latest_workout_time)
  /\ UNCHANGED <<now, file, disk, pc, last_sync_date, current_time,
                 workouts_to_sync, idx, fit_file_path, passResult, passLog,
                 history, encoder, overlap, access>>

EncNext ==
  \/ Generate
  \/ GenerateRaise
  \/ FilterWorkout

EncSpec == EncInit /\ [][EncNext]_vars

\* ------------------------------------------------- two invocations of main
\* main() is called once more while the first invocation may be anywhere:
\* the two share the watermark file, the directory and the clock, and each
\* has its own locals.  The actions of the second invocation are those of
\* the first, on the record other.
OtherCurId == other.workouts_to_sync[other.idx]
OtherCur == Workouts[OtherCurId]
OtherAfterWorkout ==
  IF other.idx + 1 > Len(other.workouts_to_sync) THEN "Advancing" ELSE "Filtering"

\* Variant of OtherStartPass: main() takes a run-level lock and starts only
\* while no other invocation is in flight.
OtherStartPassLocked ==
  /\ other.pc = "Idle" /\ other.result = "none"
  /\ pc = "Idle"
  /\ other' = [other EXCEPT !.pc = "Fetching", !.result = "running",
                            !.last_sync_date = get_last_sync_date(file, now),
                            !.current_time = now,
                            !.latest_workout_time = get_last_sync_date(file, now)]
  /\ UNCHANGED <<now, file, disk, first, encoder, access>>

\* Lines 33-42.
OtherStartPass ==
  /\ other.pc = "Idle" /\ other.result = "none"
  /\ other' = [other EXCEPT !.pc = "Fetching", !.result = "running",
                            !.last_sync_date = get_last_sync_date(file, now),
                            !.current_time = now,
                            !.latest_workout_time = get_last_sync_date(file, now)]
  /\ UNCHANGED <<now, file, disk, first, encoder, access>>

\* Lines 50-52.
OtherFetchFail ==
  /\ other.pc = "Fetching"
  /\ other' = [other EXCEPT !.pc = "Idle", !.result = "fetchfail"]
  /\ UNCHANGED <<now, file, disk, first, encoder, access>>

\* Lines 54-57.
OtherFetchEmpty ==
  /\ other.pc = "Fetching"
  /\ file' = set_last_sync_date(other.current_time)
  /\ other' = [other EXCEPT !.pc = "Idle", !.result = "empty"]
  /\ UNCHANGED <<now, disk, first, encoder, access>>

\* Lines 48-49, 60-61.
OtherFetchOk ==
  /\ other.pc = "Fetching"
  /\ InWindow(other.last_sync_date, other.current_time)
  /\ \E b \in Batches :
       /\ Len(b) \in 1..OverlapBatch
       /\ \A i \in DOMAIN b :
            Workouts[b[i]].sk = "ok" =>
              Workouts[b[i]].start <= other.current_time + FETCH_BUFFER
       /\ other' = [other EXCEPT !.pc = "Filtering", !.workouts_to_sync = b]
  /\ UNCHANGED <<now, file, disk, first, encoder, access>>

\* Lines 64-77.
OtherFilter ==
  /\ other.pc = "Filtering"
  /\ LET w == OtherCur
     IN  \/ /\ w.sk = "none"
            /\ other' = [other EXCEPT !.pc = "Encoding"]
         \/ /\ w.sk = "bad"
            /\ other' = [other EXCEPT !.pc = OtherAfterWorkout,
                                      !.idx = other.idx + 1]
         \/ /\ w.sk = "ok"
            /\ AlreadySynced(w.start, other.last_sync_date)
            /\ other' = [other EXCEPT !.pc = OtherAfterWorkout,
                                      !.idx = other.idx + 1]
         \/ /\ w.sk = "ok"
            /\ ~AlreadySynced(w.start, other.last_sync_date)
            /\ other' = [other EXCEPT
                           !.pc = "Encoding",
                           !.latest_workout_time =
                              Later(w.start, other.latest_workout_time)]
  /\ UNCHANGED <<now, file, disk, first, encoder, access>>

\* Line 81 returns.
OtherEncodeOk ==
  /\ other.pc = "Encoding"
  /\ Parses(OtherCur)
  /\ disk' = disk \cup {PathOf(OtherCur)}
  /\ other' = [other EXCEPT !.pc = "Uploading",
                            !.fit_file_path = <<PathOf(OtherCur)>>]
  /\ UNCHANGED <<now, file, first, encoder, access>>

\* Line 81 raises at fit_generator.py:37-38.
OtherEncodeRaise ==
  /\ other.pc = "Encoding"
  /\ ~Parses(OtherCur)
  /\ other' = [other EXCEPT !.pc = "Cleanup"]
  /\ UNCHANGED <<now, file, disk, first, encoder, access>>

\* Line 81 raises at fit_generator.py:142 with the file created.
OtherEncodeWriteFault ==
  /\ other.pc = "Encoding"
  /\ Parses(OtherCur)
  /\ disk' = disk \cup {PathOf(OtherCur)}
  /\ other' = [other EXCEPT !.pc = "Cleanup"]
  /\ UNCHANGED <<now, file, first, encoder, access>>

\* Line 84 returns True.
OtherUploadOk ==
  /\ other.pc = "Uploading"
  /\ other.fit_file_path[1] \in disk
  /\ other' = [other EXCEPT !.pc = "Cleanup",
                            !.handed = other.handed \cup {OtherCurId}]
  /\ UNCHANGED <<now, file, disk, first, encoder, access>>

\* Line 84 returns False.
OtherUploadFalse ==
  /\ other.pc = "Uploading"
  /\ other.fit_file_path[1] \in disk
  /\ other' = [other EXCEPT !.pc = "Cleanup",
                            !.handed = other.handed \cup {OtherCurId},
                            !.upFailed = other.upFailed \cup {OtherCurId}]
  /\ UNCHANGED <<now, file, disk, first, encoder, access>>

\* Line 84 raises; line 89 catches.
OtherUploadRaise ==
  /\ other.pc = "Uploading"
  /\ other' = [other EXCEPT !.pc = "Cleanup",
                            !.handed = other.handed \cup {OtherCurId},
                            !.upFailed = other.upFailed \cup {OtherCurId}]
  /\ UNCHANGED <<now, file, disk, first, encoder, access>>

\* Lines 91-95.
OtherCleanup ==
  /\ other.pc = "Cleanup"
  /\ disk' = IF other.fit_file_path # <<>> /\ other.fit_file_path[1] \in disk
             THEN disk \ {other.fit_file_path[1]}
             ELSE disk
  /\ other' = [other EXCEPT !.pc = OtherAfterWorkout, !.idx = other.idx + 1]
  /\ UNCHANGED <<now, file, first, encoder, access>>

\* Line 99.
OtherAdvance ==
  /\ other.pc = "Advancing"
  /\ file' = set_last_sync_date(NextSyncDate(other.latest_workout_time))
  /\ other' = [other EXCEPT !.pc = "Idle", !.result = "done"]
  /\ UNCHANGED <<now, disk, first, encoder, access>>

\* The first invocation is started once, and its fetch is as short as the
\* other's.
FirstStartPass == StartPass /\ passResult = "none"
FirstFetchOk == FetchOk /\ Len(workouts_to_sync') <= OverlapBatch

OverlapNext ==
  \/ Tick
  \/ FirstStartPass
  \/ FetchFail
  \/ FetchEmpty
  \/ FirstFetchOk
  \/ Filter
  \/ EncodeOk
  \/ EncodeRaise
  \/ EncodeWriteFault
  \/ UploadOk
  \/ UploadFalse
  \/ UploadRaise
  \/ Cleanup
  \/ Advance
  \/ OtherStartPass
  \/ OtherFetchFail
  \/ OtherFetchEmpty
  \/ OtherFetchOk
  \/ OtherFilter
  \/ OtherEncodeOk
  \/ OtherEncodeRaise
  \/ OtherEncodeWriteFault
  \/ OtherUploadOk
  \/ OtherUploadFalse
  \/ OtherUploadRaise
  \/ OtherCleanup
  \/ OtherAdvance

OverlapSpec == Init /\ [][OverlapNext]_vars

\* ================================================================ claims
\* A pass has run to its end: main() returned after a fetch that succeeded.
PassDone == pc = "Idle" /\ passResult = "done"
PassEmpty == pc = "Idle" /\ passResult = "empty"

\* What the passes so far did with a workout.
Transmitted(id) == hist[id] = "sent" \/ id \in handedNow \ upFailedNow

\* C1: at-most-once delivery.  No workout is handed to the upload
\* collaborator in two passes: a workout handed to it in this pass was never
\* handed to it in an earlier pass.
C1_AtMostOnce == \A id \in handedNow : hist[id] = "new"

\* C2: watermark monotonicity.  The watermark a pass stores is never
\* earlier than the watermark the pass read at its start.
C2_Monotone ==
  (PassDone \/ PassEmpty) => file.kind = "ok" /\ file.val >= last_sync_date

\* The workouts of the batch whose loop body has ended.
Processed == { workouts_to_sync[i] : i \in 1..(idx - 1) }

\* C3: exactly-once delivery, liveness half.  A well-formed workout that
\* passes the filter of some pass is uploaded successfully at some time.
C3_EventuallySent ==
  \A id \in Ids :
    WellFormed(Workouts[id]) => [](id \in acceptedNow => <>Transmitted(id))

MaxOf(S) == CHOOSE m \in S : \A x \in S : x <= m

\* max(watermark read at pass start, latest start among the accepted workouts).
LatestAccepted ==
  MaxOf({last_sync_date} \cup { Workouts[id].start : id \in acceptedNow })

C6_EncodeFailureRetried ==
  PassDone =>
    \A id \in acceptedNow \cap encFailedNow : Workouts[id].start > file.val

\* C7: an accepted workout whose upload failed lies at or before the
\* watermark its pass stores, and no later pass hands it to upload again.
C7_UploadFailureDropped ==
  /\ PassDone => \A id \in upFailedNow : Workouts[id].start < file.val
  /\ \A id \in handedNow : hist[id] # "failed"

\* C8: a failure of one workout does not abort the pass.  A pass in which an
\* encoding or an upload failed ends only through the advancing step, and
\* by then every accepted workout of the batch was given to the encoder and,
\* if its encoding succeeded, handed to upload.
C8_Isolation ==
  /\ (pc = "Idle" /\ encFailedNow \cup upFailedNow # {}) => passResult = "done"
  /\ PassDone =>
       \A i \in DOMAIN workouts_to_sync :
         LET id == workouts_to_sync[i] IN
           id \in acceptedNow =>
             /\ id \in encTried
             /\ id \notin encFailedNow => id \in handedNow

\* C8 witness: the upload of the first workout of a batch raised or returned
\* failure, and the second workout was uploaded in the same pass.
C8_Witness ==
  /\ PassDone
  /\ Len(workouts_to_sync) = 2
  /\ workouts_to_sync[1] \in upFailedNow
  /\ workouts_to_sync[2] \in handedNow \ upFailedNow

\* C9: the encoder never produces an artifact for a workout with end before
\* start or with a negative reps or weight.
C9_Rejects ==
  pc = "Uploading" => ~(Cur.neg \/ (Parses(Cur) /\ Cur.end < Cur.start))

\* C10: between two loop bodies and between two passes no encoded artifact
\* is left in temp_fit_files.
C10_NoArtifact ==
  pc \in {"Idle", "Fetching", "Filtering", "Advancing"} => disk = {}
\* C11: after a crash at any step of a pass that read a stored watermark,
\* the file holds that watermark or the one the pass was storing, whole.
C11_AtomicStore ==
  (pc = "Idle" /\ passResult = "crashed"
     /\ last_sync_date # current_time - DEFAULT_WINDOW)
    => /\ file.kind = "ok"
       /\ file.val \in {last_sync_date, current_time,
                         NextSyncDate(latest_workout_time)}

\* C12: in the pass run after a crashed pass, no workout that an earlier
\* completed pass uploaded is handed to upload again.
C12_BoundedRedelivery ==
  passResult = "rerun" => \A id \in handedNow : hist[id] # "sent"

\* C13: the step on which the fetch fails ends the pass with nothing
\* handed to the encoder, nothing handed to upload, and the watermark file
\* and the artifact directory as they were.
C13_FetchFailFrame ==
  [][(pc = "Fetching" /\ pc' = "Idle" /\ passResult' = "fetchfail")
       => /\ file' = file
          /\ disk' = disk
          /\ encTried' = {}
          /\ handedNow' = {}]_vars
\* A pass after a completed one ended on a failed fetch.
C13_Witness ==
  pc = "Idle" /\ passResult = "fetchfail" /\ file.kind = "ok" /\ file.val > 0

\* C14: what load returned at the start of the pass is the instant the
\* record names when the record is a valid timestamp, and the clock
\* reading minus 30 days when it is missing, empty or unparsable.
C14_DegradedLoad ==
  passResult # "none"
    => last_sync_date = IF file.kind = "ok"
                        THEN InstantOf(file)
                        ELSE current_time - DEFAULT_WINDOW

\* The call returned a file.
Built == fit_file.st = "built"
\* The Record messages of the file, in file order.
RecordsOf(msgs) == SelectSeq(msgs, LAMBDA m : m.kind = "record")
IsTimerEvent(m, type) ==
  m.kind = "event" /\ m.event = "timer" /\ m.event_type = type

\* C15: the file is FileIdentity, SessionSummary, TimerEvent(start), the
\* Records, and TimerEvent(stop) as its last message.
C15_MessageOrder ==
  Built =>
    LET m == fit_file.msgs
        n == Len(m)
    IN  /\ n >= 4
        /\ m[1].kind = "file_id"
        /\ m[2].kind = "session"
        /\ IsTimerEvent(m[3], "start")
        /\ \A i \in 4..(n - 1) : m[i].kind = "record"
        /\ IsTimerEvent(m[n], "stop")

\* C16: every Record of the file lies between the session start and the
\* session end.
C16_RecordsWithinSession ==
  Built =>
    \A i \in DOMAIN fit_file.msgs :
      fit_file.msgs[i].kind = "record" =>
        /\ fit_file.msgs[i].timestamp >= FitTimestamp(hevy_workout_data.start_time)
        /\ fit_file.msgs[i].timestamp <= FitTimestamp(hevy_workout_data.end_time)

C18_AtLeastOneRecord ==
  Built =>
    LET r == RecordsOf(fit_file.msgs)
    IN  /\ Len(r) >= 1
        /\ hevy_workout_data.exercises = <<>>
             => /\ Len(r) = 1
                /\ r[1].timestamp = FitTimestamp(hevy_workout_data.end_time)
\* A workout without exercises that ends when it starts was encoded.
C18_Witness ==
  /\ Built
  /\ hevy_workout_data.exercises = <<>>
  /\ hevy_workout_data.end_time = hevy_workout_data.start_time
  /\ Len(RecordsOf(fit_file.msgs)) = 1

\* C19: the SessionSummary carries elapsed = end - start, the same timer
\* time, the start and the end as seconds since the FIT epoch, one lap,
\* and as calories the integer part of elapsed / 60 * 6 (360 for 3600 s).
C19_SessionSummary ==
  Built =>
    LET m == fit_file.msgs[2]
        d == hevy_workout_data
    IN  /\ m.kind = "session"
        /\ m.total_elapsed_time = d.end_time - d.start_time
        /\ m.total_timer_time = m.total_elapsed_time
        /\ m.start_time + GARMIN_EPOCH = d.start_time
        /\ m.timestamp + GARMIN_EPOCH = d.end_time
        /\ m.num_laps = 1
        /\ 10 * m.total_calories <= m.total_elapsed_time
        /\ m.total_elapsed_time < 10 * (m.total_calories + 1)
        /\ m.total_elapsed_time = 3600 => m.total_calories = 360
\* The workout of 2024-01-01T10:00:00Z to 11:00:00Z was encoded with 360
\* calories.
C19_Witness ==
  /\ Built
  /\ hevy_workout_data.start_time = 1704103200
  /\ hevy_workout_data.end_time = 1704103200 + 3600
  /\ fit_file.msgs[2].total_calories = 360

\* An invocation is in flight: it has loaded the watermark and has not
\* stored yet.
FirstInFlight == pc # "Idle"
OtherInFlight == other.pc # "Idle"

\* C20: nothing keeps a second pass from starting while the first is in
\* flight, and two passes in flight both work from the watermark record
\* still on file, whatever the other has accepted or uploaded.
C20_NoMutualExclusion ==
  /\ (FirstInFlight /\ other.pc = "Idle" /\ other.result = "none")
       => ENABLED OtherStartPass
  /\ (FirstInFlight /\ OtherInFlight)
       => /\ last_sync_date = get_last_sync_date(file, current_time)
          /\ other.last_sync_date
               = get_last_sync_date(file, other.current_time)
\* Both passes are in flight and each has uploaded the well-formed
\* workout 2.
C20_Witness ==
  /\ FirstInFlight /\ OtherInFlight
  /\ 2 \in handedNow \ upFailedNow
  /\ 2 \in other.handed \ other.upFailed
  /\ WellFormed(Workouts[2])

\* main() returned.
PassEnded == pc = "Idle" /\ passResult \in {"done", "empty", "fetchfail"}
\* A workout is being filtered, encoded, uploaded or cleaned up.
InLoop == pc \in {"Filtering", "Encoding", "Uploading", "Cleanup"}

\* C21 as stated: a pass that ended has read the watermark once and
\* written it once, and has done neither inside the loop.
C21_ReadOnceWriteOnce ==
  /\ PassEnded => reads = 1 /\ writes = 1
  /\ InLoop => reads = 1 /\ writes = 0

\* C21 as amended: the watermark is read once before the fetch; a pass whose
\* fetch fails never writes it, a pass whose fetch is empty writes it once,
\* a pass that ran the loop writes it once after the last workout and then
\* reads it once more for the log; inside the loop it is neither read nor
\* written.
C21_AccessDiscipline ==
  /\ pc = "Fetching" => reads = 1 /\ writes = 0
  /\ InLoop => reads = 1 /\ writes = 0
  /\ pc = "Advancing" => reads = 1 /\ writes = 0
  /\ (pc = "Idle" /\ passResult = "fetchfail") => reads = 1 /\ writes = 0
  /\ PassEmpty => reads = 1 /\ writes = 1
  /\ PassDone => reads = 2 /\ writes = 1
\* A pass that uploaded a workout ended with one store and two loads.
C21_Witness ==
  PassDone /\ handedNow # {} /\ reads = 2 /\ writes = 1

\* The workouts the loop has entered: the first idx of the batch.
Entered == { workouts_to_sync[i] : i \in 1..idx }

\* C22: the loop takes the workouts one at a time in fetched order; an
\* upload is attempted only for the workout whose encode just succeeded,
\* cleanup follows the encode or upload attempt of the same workout, and a
\* workout is handed to the encoder only when every earlier one has left
\* the loop body, so at most one workout is in flight.
C22_StepOrder ==
  /\ [](InLoop =>
         /\ encTried \cup handedNow \subseteq Entered
         /\ handedNow \subseteq encTried \ encFailedNow
         /\ (encTried \ Processed) \subseteq {CurId}
         /\ pc \in {"Filtering", "Encoding"}
              => CurId \notin encTried \cup handedNow
         /\ pc = "Uploading"
              => CurId \in encTried \ (encFailedNow \cup handedNow)
         /\ pc = "Cleanup" => CurId \in encTried)
  /\ [][/\ pc' = "Encoding" => pc = "Filtering" /\ idx' = idx
        /\ pc' = "Uploading" => pc = "Encoding" /\ idx' = idx
        /\ pc' = "Cleanup" => pc \in {"Encoding", "Uploading"} /\ idx' = idx
        /\ (InLoop /\ idx' # idx)
             => idx' = idx + 1 /\ pc \in {"Filtering", "Cleanup"}]_vars
\* Two workouts of one batch were encoded and uploaded in turn; the second
\* is at its cleanup.
C22_Witness ==
  /\ pc = "Cleanup" /\ idx = 2
  /\ Cardinality(handedNow) = 2

\* The seconds a set counts in the record generation of spec 4.1: its
\* duration, or 60 when it has none.
NominalDuration(set) ==
  IF set.dk = "int" THEN set.duration_seconds ELSE 60
RECURSIVE NominalSum(_)
NominalSum(sets) ==
  IF sets = <<>> THEN 0 ELSE NominalDuration(Head(sets)) + NominalSum(Tail(sets))
\* The seconds of all sets of the first k exercises.
RECURSIVE NominalSumUpTo(_, _)
NominalSumUpTo(exs, k) ==
  IF k = 0 THEN 0 ELSE NominalSumUpTo(exs, k - 1) + NominalSum(exs[k].sets)

\* C23: the call on a workout of n exercises gives a file whose Records
\* are one per exercise, the k-th at start + the seconds of all sets of the
\* exercises before it, and one more at the session end iff there is no
\* exercise or start + the seconds of all sets is before the end.
C23_RecordGeneration ==
  fit_file.st # "none" =>
    LET d == hevy_workout_data
        n == Len(d.exercises)
        r == RecordsOf(fit_file.msgs)
        trailing == n = 0 \/ d.start_time + NominalSumUpTo(d.exercises, n) < d.end_time
    IN  /\ Built
        /\ Len(r) = n + (IF trailing THEN 1 ELSE 0)
        /\ \A k \in 1..n :
             r[k].timestamp + GARMIN_EPOCH
               = d.start_time + NominalSumUpTo(d.exercises, k - 1)
        /\ trailing => r[n + 1].timestamp + GARMIN_EPOCH = d.end_time

C25_NoUsableStart ==
  /\ [](\A id \in Ids :
         /\ Workouts[id].sk = "bad"
              => id \notin acceptedNow \cup encTried \cup handedNow
         /\ Workouts[id].sk = "none"
              => /\ id \notin acceptedNow \cup handedNow
                 /\ id \in encTried => id \in encFailedNow
                 /\ id \in Processed => id \in encFailedNow)
  /\ [][(InLoop /\ Cur.sk # "ok")
          => latest_workout_time' = latest_workout_time]_vars
\* A pass took a workout without start_time and one with an unparsable
\* start_time through the loop and ended.
C25_Witness ==
  /\ PassDone
  /\ workouts_to_sync = <<4, 5>>
  /\ Workouts[4].sk = "none" /\ Workouts[5].sk = "bad"
  /\ encFailedNow = {4}
  /\ latest_workout_time = last_sync_date

\* C26: for a workout that passed the filter and was encoded, the start
\* folded into the next watermark is the instant of the SessionSummary's
\* start timestamp.
C26_SameStartInstant ==
  (Built /\ latest_workout_time # last_sync_date)
    => fit_file.msgs[2].start_time + GARMIN_EPOCH = latest_workout_time

====
